---- MODULE Spec2Model ----
(***************************************************************************)
(* Camera / selection state machine and orbital position model of the     *)
(* solar-system emulator (CameraController.js, PlanetsUpdater.js,          *)
(* Planets.js, Moons.js, KeyboardHandler.js), and its services: the NASA   *)
(* API routes with their rate limiter, the texture manager and the         *)
(* caching NASA API client.                                                *)
(*                                                                         *)
(* Lengths are fixed-point integers: Scale units per scene unit.  Angles   *)
(* (orbit progress) are micro-radians.  Speed factors are tenths.          *)
(* Lerp factors are per-mille.                                             *)
(***************************************************************************)
EXTENDS Integers, Sequences, FiniteSets, TLC

VARIABLES
    cameraState,              \* CameraContext: cameraState
    selectedPlanet,           \* SelectedPlanetContext: selectedPlanet
    speedFactor,              \* SpeedControlContext: current speed (tenths)
    userSpeed,                \* SpeedControlContext: stored user value (tenths)
    overridden,               \* SpeedControlContext: override() active
    planetOrbitProgress,      \* SolarSystem: planetOrbitProgress (micro-radians)
    planetPositions,          \* PlanetPositionsContext: planetPositions
    cameraPosition,           \* three.js camera.position
    invisibleTarget,          \* CameraController: invisibleTargetRef.current
    controls,                 \* OrbitControls: enabled, target, min/maxDistance
    introAnimationCompleted,  \* CameraController: introAnimationCompleted.current
    resolvedPosition,         \* what getPlanetPosition returned in the last frame
    frame,                    \* frame counter modulo InputPeriod
    inputsLeft,               \* input events the user may still issue
    originalSpeed,            \* the speed factor the user had at start
    selectedFrom,             \* the camera state in which the selection was made
    progressMapId,            \* which object planetOrbitProgress is (a new one flips it)
    touchEnd,                 \* the touch gesture ended in the last step, NoTouch otherwise
    now,                      \* Date.now(), in units of the model's clock
    limiterCache,             \* RateLimiter: this.cache (identifier -> timestamps)
    granted,                  \* the times of the checks that succeeded, per identifier
    lastCheck,                \* what the last check() returned
    lastRequest,              \* the last request a NASA API route answered
    textureManager,           \* TextureManager: cache, loadingQueue, deviceCapabilities
    loads,                    \* the loads TextureLoader has in flight
    loadsStarted,             \* how many loads TextureLoader was asked for
    lastLoadCall,             \* what the last loadTexture call returned
    queueCleared,             \* disposeAll emptied the loading queue under a load
    nasaCache,                \* NASAAPIService: this.cache (cache key -> data, timestamp)
    fetches,                  \* the _fetchWithCache calls that wait for their fetch
    fetchesStarted,           \* how many fetches were issued
    lastResult,               \* how the last _fetchWithCache call ended
    lastSuccess               \* per cache key, when its entry was last fetched (0: never)

sceneVars == <<cameraState, selectedPlanet, speedFactor, userSpeed, overridden,
               planetOrbitProgress, planetPositions, cameraPosition, invisibleTarget,
               controls, introAnimationCompleted, resolvedPosition, frame, inputsLeft,
               originalSpeed, selectedFrom, progressMapId, touchEnd>>

apiVars == <<limiterCache, granted, lastCheck, lastRequest>>

textureVars == <<textureManager, loads, loadsStarted, lastLoadCall, queueCleared>>

clientVars == <<nasaCache, fetches, fetchesStarted, lastResult, lastSuccess>>

serviceVars == <<now, apiVars, textureVars, clientVars>>

vars == <<sceneVars, serviceVars>>

SceneUntouched == UNCHANGED sceneVars
ServicesUntouched == UNCHANGED serviceVars

---------------------------------------------------------------------------
(* Bounds of the model *)

\* the user issues at most this many input events in a run
MaxInputs == 2
\* in the running-orbit specification
MaxOrbitInputs == 2
\* in the specification of the input handlers alone
MaxKeyPresses == 3
\* input events are sampled every InputPeriod frames
InputPeriod == 200
\* frame time in milliseconds (clock.getElapsedTime() difference)
FrameMs == 16
\* orbit progress (micro-radians) is followed up to this value
MaxProgress == 100000
\* the clock of the services stops here
MaxTime == 5
\* the limit and the window of the model's rate limiter
LimiterLimit == 2
LimiterWindow == 3
\* the loads the texture loader is asked for, at most
MaxLoads == 3
\* the cache duration of the NASA API client, in units of the model's clock
CacheDuration == 3
\* the fetches the NASA API client issues, at most
MaxFetches == 3

---------------------------------------------------------------------------
(* Fixed-point representation *)

Scale == 10000
Unit == 10000
NoPosition == <<>>
Origin == <<0, 0, 0>>

Abs(x) == IF x < 0 THEN -x ELSE x
Max2(a, b) == IF a > b THEN a ELSE b
Min2(a, b) == IF a < b THEN a ELSE b

RECURSIVE SqrtIter(_, _, _)
SqrtIter(n, lo, hi) ==
    IF lo >= hi THEN lo
    ELSE LET mid == (lo + hi + 1) \div 2
         IN  IF mid * mid <= n THEN SqrtIter(n, mid, hi)
                               ELSE SqrtIter(n, lo, mid - 1)

\* Math.sqrt on non-negative integers below 2^31 (floor)
ISqrt(n) == SqrtIter(n, 0, 46340)

\* truncating division (toward zero), as a float product would round symmetrically
TDiv(a, b) == IF a < 0 THEN -((-a) \div b) ELSE a \div b
\* division rounded to nearest
RDiv(a, b) == IF a < 0 THEN -(((-a) + (b \div 2)) \div b) ELSE (a + (b \div 2)) \div b

VecAdd(a, b) == <<a[1] + b[1], a[2] + b[2], a[3] + b[3]>>
VecSub(a, b) == <<a[1] - b[1], a[2] - b[2], a[3] - b[3]>>
MaxAbs(v) == Max2(Abs(v[1]), Max2(Abs(v[2]), Abs(v[3])))

\* components reduced so that their squares can be summed
PreScale(v) == 1 + (MaxAbs(v) \div 20000)
Reduced(v) == LET k == PreScale(v) IN <<TDiv(v[1], k), TDiv(v[2], k), TDiv(v[3], k)>>
SumSq(v) == v[1] * v[1] + v[2] * v[2] + v[3] * v[3]

\* Vector3.length()
Length(v) == PreScale(v) * ISqrt(SumSq(Reduced(v)))

\* Vector3.distanceTo()
DistanceTo(a, b) == Length(VecSub(a, b))

\* Vector3.normalize(): a vector of length Unit (the zero vector stays zero)
Normalize(v) ==
    LET w == Reduced(v)
        l == ISqrt(SumSq(w))
    IN  IF l = 0 THEN Origin
        ELSE <<RDiv(w[1] * Unit, l), RDiv(w[2] * Unit, l), RDiv(w[3] * Unit, l)>>

\* a.distanceTo(b) < eps, for eps below 26000 units
DistanceBelow(a, b, eps) ==
    LET d == VecSub(a, b)
    IN  /\ MaxAbs(d) < eps
        /\ SumSq(d) < eps * eps

\* Vector3.lerp(target, alpha): this += (target - this) * alpha; alpha per-mille
LerpC(p, t, alpha) == p + RDiv((t - p) * alpha, 1000)
Lerp(p, t, alpha) ==
    <<LerpC(p[1], t[1], alpha), LerpC(p[2], t[2], alpha), LerpC(p[3], t[3], alpha)>>


---------------------------------------------------------------------------
(* Body catalog (lib/planetsData): the star and planet of the              *)
(* specification's scenarios, a gas giant matched by name, and one moon.   *)

Sun == [id |-> 0, name |-> "Sun", radius |-> 5 * Scale, position |-> Origin,
        orbitSpeed |-> 0, isSun |-> TRUE, isMoon |-> FALSE, parentPlanet |-> ""]
Earth == [id |-> 1, name |-> "Earth", radius |-> Scale, position |-> <<8 * Scale, 0, 0>>,
          orbitSpeed |-> 1, isSun |-> FALSE, isMoon |-> FALSE, parentPlanet |-> ""]
Jupiter == [id |-> 2, name |-> "Jupiter", radius |-> 2 * Scale,
            position |-> <<14 * Scale, 0, 0>>,
            orbitSpeed |-> 1, isSun |-> FALSE, isMoon |-> FALSE, parentPlanet |-> ""]

planetsData == <<Sun, Earth, Jupiter>>

PlanetNames == {planetsData[i].name : i \in 1..Len(planetsData)}
\* the bodies SolarSystem renders as <Planet>: planetsData.filter(p => !p.isSun)
RenderedPlanets == {planetsData[i] : i \in {j \in 1..Len(planetsData) : ~planetsData[j].isSun}}

\* MoonData of Earth's moon (radius 0.3, orbitRadius 2)
Moon == [name |-> "Moon", radius |-> 3000, orbitRadius |-> 2 * Scale, orbitSpeed |-> 1]
MoonParent == Earth

\* moonRefs.current[i].position at the instant of a click: the moon's local
\* orbit starts at a random angle (Math.random) and advances every frame
MoonLocalPositions == {<<Moon.orbitRadius, 0, 0>>, <<0, 0, -Moon.orbitRadius>>}

\* selectedPlanet === null
NoSelection == [id |-> -1, name |-> "", radius |-> 0, position |-> NoPosition,
                orbitSpeed |-> 0, isSun |-> FALSE, isMoon |-> FALSE, parentPlanet |-> ""]

\* no touch is in progress
NoTouch == [deltaX |-> 0, deltaY |-> 0, deltaTime |-> 0]

---------------------------------------------------------------------------
(* CameraController.js constants *)

LERP_FACTOR == 15
FAST_LERP_FACTOR == 40
INTRO_LERP_FACTOR == 15
\* CAMERA.POSITION_EPSILON = 0.1, in tenths
POSITION_EPSILON == 1
\* 0.01 scene units
INTRO_EPSILON == 100
HOME_POSITION == <<11 * Scale, Scale, Scale>>
\* <Canvas camera={{ position: [-100, 0, 100] }}>
InitialCameraPosition == <<-100 * Scale, 0, 100 * Scale>>
\* controls.maxDistance = Infinity
Infinity == 2000000000

\* MIN, MAX, VERTICAL_OFFSET in tenths; DISTANCE_FACTOR a whole number
SUN_FACTORS == [MIN |-> 15, MAX |-> 100]
SUN_OFFSET == <<8, 4, 6>>
\* DISTANCE_FACTORS.SUN.SCALE = 0.4, in tenths
SUN_SCALE == 4
JUPITER_FACTORS == [MIN |-> 12, MAX |-> 50, VERTICAL_OFFSET |-> 20, DISTANCE_FACTOR |-> 5]
DEFAULT_PLANET_FACTORS == [MIN |-> 12, MAX |-> 30, VERTICAL_OFFSET |-> 15, DISTANCE_FACTOR |-> 3]
MOON_OFFSET_FACTORS == [VERTICAL_OFFSET |-> 3, DISTANCE_FACTOR |-> 8]
MOON_FACTORS == [MIN |-> 15, MAX |-> 150]
\* new Vector3(0.3, 0.7, 0.2)
UP_BIAS == <<3000, 7000, 2000>>

\* variant: the radius taken in scene units, so the tolerance is below one step of the lerp
RadiusEpsilonInSceneUnits(body) == ((body.radius \div Scale) * POSITION_EPSILON) \div 10
\* radius * CAMERA.POSITION_EPSILON
RadiusEpsilon(body) == (body.radius * POSITION_EPSILON) \div 10
HomeEpsilon == (Scale * POSITION_EPSILON) \div 10

\* variant: a planet without an entry is taken to be at the origin
getPlanetPositionOrOrigin(selected, positions) ==
    IF selected = NoSelection THEN NoPosition
    ELSE IF selected.isSun THEN Origin
    ELSE IF selected.isMoon /\ selected.position # NoPosition THEN selected.position
    ELSE IF selected.name \in DOMAIN positions /\ positions[selected.name] # NoPosition
         THEN positions[selected.name]
    ELSE Origin

\* variant: the star is looked up in the registry like a planet
getPlanetPositionFromRegistry(selected, positions) ==
    IF selected = NoSelection THEN NoPosition
    ELSE IF selected.isMoon /\ selected.position # NoPosition THEN selected.position
    ELSE IF selected.name \in DOMAIN positions THEN positions[selected.name]
    ELSE NoPosition

getPlanetPosition(selected, positions) ==
    IF selected = NoSelection THEN NoPosition
    ELSE IF selected.isSun THEN Origin
    ELSE IF selected.isMoon /\ selected.position # NoPosition THEN selected.position
    ELSE IF selected.name \in DOMAIN positions THEN positions[selected.name]
    ELSE NoPosition

OffsetConfig(selected) ==
    IF selected.isMoon THEN MOON_OFFSET_FACTORS
    ELSE IF selected.name = "Jupiter" THEN JUPITER_FACTORS
    ELSE DEFAULT_PLANET_FACTORS

calculateCameraOffset(planetPosition, selected) ==
    LET config == OffsetConfig(selected)
        \* sunDirection.multiplyScalar(-1): the unit vector from the sun to the body
        away == Normalize(planetPosition)
        bias == Normalize(UP_BIAS)
        lifted == <<away[1] + TDiv(bias[1] * config.VERTICAL_OFFSET, 10),
                    away[2] + TDiv(bias[2] * config.VERTICAL_OFFSET, 10),
                    away[3] + TDiv(bias[3] * config.VERTICAL_OFFSET, 10)>>
        dir == Normalize(lifted)
        len == selected.radius * config.DISTANCE_FACTOR
    IN  <<RDiv(dir[1] * len, Unit), RDiv(dir[2] * len, Unit), RDiv(dir[3] * len, Unit)>>

\* the camera position ZOOMING_IN steers to
ZoomTargetPosition(position, selected) ==
    IF selected.isSun
    THEN LET k == (selected.radius * SUN_SCALE) \div 10
         IN  VecAdd(position, <<SUN_OFFSET[1] * k, SUN_OFFSET[2] * k, SUN_OFFSET[3] * k>>)
    ELSE VecAdd(position, calculateCameraOffset(position, selected))

DetailDistanceConfig(selected) ==
    IF selected.isSun THEN SUN_FACTORS
    ELSE IF selected.isMoon THEN MOON_FACTORS
    ELSE IF selected.name = "Jupiter" THEN [MIN |-> JUPITER_FACTORS.MIN, MAX |-> JUPITER_FACTORS.MAX]
    ELSE [MIN |-> DEFAULT_PLANET_FACTORS.MIN, MAX |-> DEFAULT_PLANET_FACTORS.MAX]

\* OrbitControls.update(): the camera is put back on the segment
\* [minDistance, maxDistance] of its ray from controls.target
ClampedCamera(camera, c) ==
    LET offset == VecSub(camera, c.target)
        dist == Length(offset)
        want == Max2(c.minDistance, Min2(c.maxDistance, dist))
        dir == Normalize(offset)
        k == 1 + (want \div 200000)
    IN  IF want = dist \/ dist = 0 THEN camera
        ELSE VecAdd(c.target, <<RDiv(dir[1] * (want \div k), Unit) * k,
                                RDiv(dir[2] * (want \div k), Unit) * k,
                                RDiv(dir[3] * (want \div k), Unit) * k>>)

---------------------------------------------------------------------------
(* PlanetsUpdater.js and the orbit placement of Planets.js *)

ORBIT_SPEED_FACTOR == 50

\* variant: the reciprocal is left out
keplerFactorWithoutReciprocal(planet) ==
    LET distanceFromSun == planet.position[1] \div Scale
    IN  ISqrt(distanceFromSun * distanceFromSun * distanceFromSun)

\* Math.sqrt(1 / Math.pow(distanceFromSun, 3)), times 10^4
keplerFactor(planet) ==
    LET distanceFromSun == planet.position[1] \div Scale
    IN  ISqrt(100000000 \div (distanceFromSun * distanceFromSun * distanceFromSun))

\* variant: the speed in degrees is used as if it were radians
orbitSpeedUnconverted(planet, sf) ==
    ((planet.orbitSpeed * ORBIT_SPEED_FACTOR * keplerFactor(planet)) * 100) * sf

\* ((orbitSpeed * ORBIT_SPEED_FACTOR * keplerFactor) / 360) * (2 * Math.PI) * speedFactor,
\* in micro-radians per second per tenth of speed factor (pi/180 = 3142/180000)
orbitSpeedRadians(planet, sf) ==
    (((planet.orbitSpeed * ORBIT_SPEED_FACTOR * keplerFactor(planet)) * 3142) \div 1800) * sf

\* the state updater handed to setPlanetOrbitProgress; dt in milliseconds
NextOrbitProgress(prev, sf, dt) ==
    [n \in PlanetNames |->
        LET planet == CHOOSE b \in {planetsData[i] : i \in 1..Len(planetsData)} : b.name = n
        IN  IF planet.isSun THEN 0
            ELSE prev[n] + ((orbitSpeedRadians(planet, sf) * dt) \div 10000)]

\* variant: a new map is returned by every frame
hasChangesAlways(prev, next) == \A n \in PlanetNames : next[n] = next[n]

\* hasChanges: some entry of the next map differs from the previous one
hasChanges(prev, next) == \E n \in PlanetNames : next[n] # prev[n]

\* return hasChanges ? nextProgress : prevOrbitProgress, as the identity of the object
ReturnedMapId(prev, next, id) == IF hasChanges(prev, next) THEN (id + 1) % 2 ELSE id

\* Bhaskara's rational approximation of 1000 * sin on [0, pi], c in centi-radians
SinHalfTurn(c) == (16 * c * (314 - c) * 1000) \div (5 * 314 * 314 - 4 * c * (314 - c))
\* 1000 * Math.sin(angle), angle in centi-radians
Sin1000(c) ==
    LET r == c % 628
    IN  IF r <= 314 THEN SinHalfTurn(r) ELSE -SinHalfTurn(r - 314)
\* 1000 * Math.cos(angle)
Cos1000(c) == Sin1000(c + 157)

\* Planets.js: [Math.cos(orbitProgress) * orbitRadius, 0, Math.sin(orbitProgress) * orbitRadius]
PlanetXZ(planet, progress) ==
    LET c == progress \div 10000
        orbitRadius == planet.position[1]
    IN  <<TDiv(Cos1000(c) * (orbitRadius \div 100), 10), 0,
          TDiv(Sin1000(c) * (orbitRadius \div 100), 10)>>

\* the registry after every <Planet> has run its setPlanetPosition effect
CommittedPositions(progress) ==
    [n \in {b.name : b \in RenderedPlanets} |->
        PlanetXZ(CHOOSE b \in RenderedPlanets : b.name = n, progress[n])]

---------------------------------------------------------------------------
(* Speed/Time control (contexts/SpeedControlContext) *)

\* the value override() forces while a body is in view
OverrideSpeed == 0

SpeedNow == [speedFactor |-> speedFactor, userSpeed |-> userSpeed, overridden |-> overridden]

\* variant: every override takes the snapshot
overrideAlwaysSnapshots(sc) ==
    [speedFactor |-> OverrideSpeed, userSpeed |-> sc.speedFactor, overridden |-> TRUE]

overrideSpeedFactor(sc) ==
    IF sc.overridden
    THEN [sc EXCEPT !.speedFactor = OverrideSpeed]
    ELSE [speedFactor |-> OverrideSpeed, userSpeed |-> sc.speedFactor, overridden |-> TRUE]

restoreSpeedFactor(sc) ==
    [sc EXCEPT !.speedFactor = sc.userSpeed, !.overridden = FALSE]

\* the setter of the current speed; outside an override it is the user's value
setSpeedFactor(sc, value) ==
    IF sc.overridden
    THEN [sc EXCEPT !.speedFactor = value]
    ELSE [sc EXCEPT !.speedFactor = value, !.userSpeed = value]

SetSpeed(sc) ==
    /\ speedFactor' = sc.speedFactor
    /\ userSpeed' = sc.userSpeed
    /\ overridden' = sc.overridden

---------------------------------------------------------------------------
(* CameraController.updateCameraState, one case per camera state.  A step  *)
(* maps the camera record of the frame to the camera record after it.      *)

CameraNow ==
    [cameraState |-> cameraState, cameraPosition |-> cameraPosition,
     invisibleTarget |-> invisibleTarget, controls |-> controls,
     introAnimationCompleted |-> introAnimationCompleted]

\* case 'FREE'
FreeStep(cam) ==
    LET c == [cam.controls EXCEPT !.enabled = TRUE, !.maxDistance = Infinity]
    IN  [cam EXCEPT !.controls = c, !.cameraPosition = ClampedCamera(cam.cameraPosition, c)]

\* case 'DETAIL_VIEW'
DetailStep(cam, selected, positions) ==
    LET planetPos == getPlanetPosition(selected, positions)
    IN  IF selected = NoSelection \/ planetPos = NoPosition THEN cam
        ELSE LET distanceConfig == DetailDistanceConfig(selected)
                 c == [enabled |-> TRUE, target |-> planetPos,
                       minDistance |-> (selected.radius * distanceConfig.MIN) \div 10,
                       maxDistance |-> (selected.radius * distanceConfig.MAX) \div 10]
             IN  [cam EXCEPT !.controls = c,
                             !.cameraPosition = ClampedCamera(cam.cameraPosition, c)]

\* case 'INTRO_ANIMATION'
IntroStep(cam) ==
    IF cam.introAnimationCompleted THEN cam
    ELSE LET moved == Lerp(cam.cameraPosition, HOME_POSITION, INTRO_LERP_FACTOR)
             c == [cam.controls EXCEPT !.enabled = FALSE]
         IN  IF DistanceBelow(moved, HOME_POSITION, INTRO_EPSILON)
             THEN [cam EXCEPT !.controls = c, !.introAnimationCompleted = TRUE,
                              !.cameraPosition = HOME_POSITION, !.cameraState = "FREE"]
             ELSE [cam EXCEPT !.controls = c, !.cameraPosition = moved]

\* variant: the look-at point is not moved toward the origin
HomeStepKeepsLookAt(cam) ==
    LET moved == Lerp(cam.cameraPosition, HOME_POSITION, LERP_FACTOR)
        look == cam.invisibleTarget
        c == [cam.controls EXCEPT !.enabled = FALSE]
    IN  IF /\ DistanceBelow(moved, HOME_POSITION, HomeEpsilon)
           /\ DistanceBelow(look, Origin, HomeEpsilon)
        THEN LET c2 == [c EXCEPT !.target = Origin, !.maxDistance = Infinity]
             IN  [cam EXCEPT !.controls = c2, !.invisibleTarget = Origin,
                             !.cameraPosition = ClampedCamera(HOME_POSITION, c2),
                             !.cameraState = "FREE"]
        ELSE [cam EXCEPT !.controls = c, !.cameraPosition = moved, !.invisibleTarget = look]

\* case 'MOVING_TO_HOME'
HomeStep(cam) ==
    LET moved == Lerp(cam.cameraPosition, HOME_POSITION, LERP_FACTOR)
        look == Lerp(cam.invisibleTarget, Origin, LERP_FACTOR)
        c == [cam.controls EXCEPT !.enabled = FALSE]
    IN  IF /\ DistanceBelow(moved, HOME_POSITION, HomeEpsilon)
           /\ DistanceBelow(look, Origin, HomeEpsilon)
        THEN LET c2 == [c EXCEPT !.target = Origin, !.maxDistance = Infinity]
             IN  [cam EXCEPT !.controls = c2, !.invisibleTarget = Origin,
                             !.cameraPosition = ClampedCamera(HOME_POSITION, c2),
                             !.cameraState = "FREE"]
        ELSE [cam EXCEPT !.controls = c, !.cameraPosition = moved, !.invisibleTarget = look]

\* variant: either test suffices
ZoomReachedEither(reachedPosition, reachedLookAt) == reachedPosition \/ reachedLookAt
\* if (reachedPosition && reachedLookAt)
ZoomReached(reachedPosition, reachedLookAt) == reachedPosition /\ reachedLookAt

\* case 'ZOOMING_IN'
ZoomStep(cam, selected, positions) ==
    LET position == getPlanetPosition(selected, positions)
    IN  IF selected = NoSelection \/ position = NoPosition THEN cam
        ELSE LET targetPosition == ZoomTargetPosition(position, selected)
                 moved == Lerp(cam.cameraPosition, targetPosition, LERP_FACTOR)
                 look == Lerp(cam.invisibleTarget, position, FAST_LERP_FACTOR)
                 reachedPosition == DistanceBelow(moved, targetPosition, RadiusEpsilon(selected))
                 reachedLookAt == DistanceBelow(look, position, RadiusEpsilon(selected))
                 c == [cam.controls EXCEPT !.enabled = FALSE]
             IN  IF ZoomReached(reachedPosition, reachedLookAt)
                 THEN LET c2 == [c EXCEPT !.target = look]
                      IN  [cam EXCEPT !.controls = c2, !.invisibleTarget = look,
                                      !.cameraPosition = ClampedCamera(moved, c2),
                                      !.cameraState = "DETAIL_VIEW"]
                 ELSE [cam EXCEPT !.controls = c, !.cameraPosition = moved,
                                  !.invisibleTarget = look]

updateCameraState(cam, selected, positions) ==
    CASE cam.cameraState = "FREE" -> FreeStep(cam)
      [] cam.cameraState = "DETAIL_VIEW" -> DetailStep(cam, selected, positions)
      [] cam.cameraState = "INTRO_ANIMATION" -> IntroStep(cam)
      [] cam.cameraState = "MOVING_TO_HOME" -> HomeStep(cam)
      [] cam.cameraState = "ZOOMING_IN" -> ZoomStep(cam, selected, positions)

\* the position the camera step of a frame resolves for the selection, if it asks
FrameResolves(state, selected, positions) ==
    IF state \in {"ZOOMING_IN", "DETAIL_VIEW"} /\ selected # NoSelection
    THEN getPlanetPosition(selected, positions)
    ELSE NoPosition

---------------------------------------------------------------------------
(* One rendered frame.  The useFrame callbacks run in mount order          *)
(* (SolarSystem.js: CameraController first, PlanetsUpdater last); the      *)
(* state update of PlanetsUpdater re-renders every <Planet>, whose effect  *)
(* then writes the registry.                                               *)

Tick ==
    \E cam \in {updateCameraState(CameraNow, selectedPlanet, planetPositions)},
       progress \in {NextOrbitProgress(planetOrbitProgress, speedFactor, FrameMs)} :
        /\ \A n \in PlanetNames : progress[n] <= MaxProgress
        /\ cameraState' = cam.cameraState
        /\ cameraPosition' = cam.cameraPosition
        /\ invisibleTarget' = cam.invisibleTarget
        /\ controls' = cam.controls
        /\ introAnimationCompleted' = cam.introAnimationCompleted
        /\ resolvedPosition' = FrameResolves(cameraState, selectedPlanet, planetPositions)
        /\ planetOrbitProgress' = progress
        /\ progressMapId' = ReturnedMapId(planetOrbitProgress, progress, progressMapId)
        /\ planetPositions' = CommittedPositions(progress)
        /\ frame' = (frame + 1) % InputPeriod
        /\ touchEnd' = NoTouch
        /\ ServicesUntouched
    /\ ServicesUntouched
        /\ UNCHANGED <<selectedPlanet, speedFactor, userSpeed, overridden, inputsLeft,
                       originalSpeed, selectedFrom>>

---------------------------------------------------------------------------
(* Input handlers.  The user acts between frames, every InputPeriod        *)
(* frames, at most MaxInputs times.                                        *)

UserActs ==
    /\ frame = 0
    /\ inputsLeft > 0
    /\ inputsLeft' = inputsLeft - 1

CameraUntouched ==
    UNCHANGED <<planetOrbitProgress, planetPositions, cameraPosition, invisibleTarget,
                controls, introAnimationCompleted, resolvedPosition, frame, originalSpeed,
                progressMapId>>

\* variant: the index is used without the range test; planetsData[index] is
\* undefined outside the range
selectPlanetByIndexUnguarded(index) ==
    /\ selectedPlanet' = IF index >= 0 /\ index < Len(planetsData)
                          THEN planetsData[index + 1] ELSE NoSelection
    /\ SetSpeed(overrideSpeedFactor(SpeedNow))
    /\ cameraState' = "ZOOMING_IN"
    /\ selectedFrom' = cameraState

\* KeyboardHandler.selectPlanetByIndex(index), index counted from 0
selectPlanetByIndex(index) ==
    IF index >= 0 /\ index < Len(planetsData)
    THEN /\ selectedPlanet' = planetsData[index + 1]
         /\ SetSpeed(overrideSpeedFactor(SpeedNow))
         /\ cameraState' = "ZOOMING_IN"
         /\ selectedFrom' = cameraState
    ELSE UNCHANGED <<selectedPlanet, speedFactor, userSpeed, overridden, cameraState,
                     selectedFrom>>

\* the indexes a caller may hand over: those of the catalog and one beyond each end
RequestedIndexes == -1..Len(planetsData)

SelectPlanetByIndex ==
    /\ UserActs
    /\ \E index \in RequestedIndexes : selectPlanetByIndex(index)
    /\ CameraUntouched
    /\ touchEnd' = NoTouch
    /\ ServicesUntouched

\* planetsData.find(planet => planet.id === id): undefined if there is none
FindById(id) ==
    LET hits == {i \in 1..Len(planetsData) : planetsData[i].id = id}
    IN  IF hits = {} THEN NoSelection
        ELSE planetsData[CHOOSE i \in hits : \A j \in hits : i <= j]

\* planets.find((planet) => planet.name === planetName)
FindByName(planetName) ==
    LET hits == {i \in 1..Len(planetsData) : planetsData[i].name = planetName}
    IN  IF hits = {} THEN NoSelection
        ELSE planetsData[CHOOSE i \in hits : \A j \in hits : i <= j]

\* an id and a name that the catalog does not hold
UnknownId == 99
UnknownName == "Vulcan"
RequestedIds == {b.id : b \in RenderedPlanets} \cup {UnknownId}
RequestedNames == PlanetNames \cup {UnknownName}

\* Planet.handlePlanetClick, of the <Planet> with this id
handlePlanetClick(id) ==
    LET planetData == FindById(id)
    IN  IF planetData # NoSelection
        THEN /\ selectedPlanet' = planetData
             /\ SetSpeed(overrideSpeedFactor(SpeedNow))
             /\ cameraState' = "ZOOMING_IN"
             /\ selectedFrom' = cameraState
        ELSE UNCHANGED <<selectedPlanet, speedFactor, userSpeed, overridden, cameraState,
                         selectedFrom>>

HandlePlanetClick ==
    /\ UserActs
    /\ \E id \in RequestedIds : handlePlanetClick(id)
    /\ CameraUntouched
    /\ touchEnd' = NoTouch
    /\ ServicesUntouched

\* variant: a new selection made from the menu first sends the camera home
handleSelectViaHome(planetName) ==
    LET selected == FindByName(planetName)
    IN  IF selected = NoSelection \/ selectedPlanet.id = selected.id
        THEN UNCHANGED <<selectedPlanet, speedFactor, userSpeed, overridden, cameraState,
                         selectedFrom>>
        ELSE /\ selectedPlanet' = selected
             /\ SetSpeed(overrideSpeedFactor(SpeedNow))
             /\ cameraState' = IF cameraState = "DETAIL_VIEW" THEN "MOVING_TO_HOME"
                                ELSE "ZOOMING_IN"
             /\ selectedFrom' = cameraState

\* PlanetMenu.handleSelect(planetName)
handleSelect(planetName) ==
    LET selected == FindByName(planetName)
    IN  IF selected = NoSelection \/ selectedPlanet.id = selected.id
        THEN UNCHANGED <<selectedPlanet, speedFactor, userSpeed, overridden, cameraState,
                         selectedFrom>>
        ELSE /\ selectedPlanet' = selected
             /\ SetSpeed(overrideSpeedFactor(SpeedNow))
             /\ cameraState' = "ZOOMING_IN"
             /\ selectedFrom' = cameraState

HandleSelect ==
    /\ UserActs
    /\ \E planetName \in RequestedNames : handleSelect(planetName)
    /\ CameraUntouched
    /\ touchEnd' = NoTouch
    /\ ServicesUntouched

\* the planetPosition prop Planets.js hands to <Moons>
MoonsPlanetPositionProp == Origin

\* Moons.handleMoonClick(moon, moonIndex, event)
handleMoonClick(moon, localPosition) ==
    LET moonWorldPosition == VecAdd(MoonsPlanetPositionProp, localPosition)
    IN  /\ selectedPlanet' = [id |-> -1, name |-> moon.name, radius |-> moon.radius,
                              position |-> moonWorldPosition, orbitSpeed |-> moon.orbitSpeed,
                              isSun |-> FALSE, isMoon |-> TRUE,
                              parentPlanet |-> MoonParent.name]
        /\ SetSpeed(overrideSpeedFactor(SpeedNow))
        /\ cameraState' = "ZOOMING_IN"
        /\ selectedFrom' = cameraState

HandleMoonClick ==
    /\ UserActs
    /\ \E localPosition \in MoonLocalPositions : handleMoonClick(Moon, localPosition)
    /\ CameraUntouched
    /\ touchEnd' = NoTouch
    /\ ServicesUntouched

\* variant: going home puts the camera state to FREE at once
goHomeSetsFree ==
    /\ cameraState' = "FREE"
    /\ selectedPlanet' = NoSelection
    /\ SetSpeed(restoreSpeedFactor(SpeedNow))
    /\ selectedFrom' = "NONE"

\* variant: going home leaves the selection in place
goHomeKeepsSelection ==
    /\ cameraState' = "MOVING_TO_HOME"
    /\ UNCHANGED selectedPlanet
    /\ SetSpeed(restoreSpeedFactor(SpeedNow))
    /\ selectedFrom' = "NONE"

\* KeyboardHandler.goHome()
goHome ==
    /\ cameraState' = "MOVING_TO_HOME"
    /\ selectedPlanet' = NoSelection
    /\ SetSpeed(restoreSpeedFactor(SpeedNow))
    /\ selectedFrom' = "NONE"

GoHome ==
    /\ UserActs
    /\ goHome
    /\ CameraUntouched
    /\ touchEnd' = NoTouch
    /\ ServicesUntouched

\* KeyboardHandler.exitView()
exitView ==
    IF selectedPlanet # NoSelection /\ cameraState = "DETAIL_VIEW"
    THEN /\ cameraState' = "MOVING_TO_HOME"
         /\ selectedPlanet' = NoSelection
         /\ SetSpeed(restoreSpeedFactor(SpeedNow))
         /\ selectedFrom' = "NONE"
    ELSE UNCHANGED <<selectedPlanet, speedFactor, userSpeed, overridden, cameraState,
                     selectedFrom>>

\* KeyboardHandler.exitSolarSystem(): router.push to another page; it writes
\* none of the contexts of the scene
exitSolarSystem ==
    UNCHANGED <<selectedPlanet, speedFactor, userSpeed, overridden, cameraState,
                selectedFrom>>

\* variant: Escape goes home from every camera state
escapeKeyGoesHome == goHome

\* KeyboardHandler.handleKeyDown, case 'Escape'
escapeKey ==
    IF selectedPlanet # NoSelection /\ cameraState = "DETAIL_VIEW"
    THEN exitView
    ELSE exitSolarSystem

EscapeKey ==
    /\ UserActs
    /\ escapeKey
    /\ CameraUntouched
    /\ touchEnd' = NoTouch
    /\ ServicesUntouched

\* KeyboardHandler: const speedPresets = [0, 0.5, 1, 2, 5]
speedPresets == <<0, 5, 10, 20, 50>>

\* speedPresets.findIndex(speed => Math.abs(speedFactor - speed) < 0.1), from 0; -1 if none
findPresetIndex(presets, sf) ==
    LET hits == {i \in 1..Len(presets) : Abs(sf - presets[i]) < 1}
    IN  IF hits = {} THEN -1 ELSE (CHOOSE i \in hits : \A j \in hits : i <= j) - 1

\* KeyboardHandler.cycleSpeedUp()
cycleSpeedUp(sf) ==
    speedPresets[Min2(findPresetIndex(speedPresets, sf) + 1, Len(speedPresets) - 1) + 1]

\* KeyboardHandler.cycleSpeedDown()
cycleSpeedDown(sf) ==
    speedPresets[Max2(findPresetIndex(speedPresets, sf) - 1, 0) + 1]

SpeedKeys == {"Space", "ArrowUp", "ArrowDown", "KeyR"}

\* KeyboardHandler.handleKeyDown, the speed keys
speedKeyValue(key, sf) ==
    CASE key = "Space" -> (IF sf = 0 THEN 10 ELSE 0)
      [] key = "ArrowUp" -> cycleSpeedUp(sf)
      [] key = "ArrowDown" -> cycleSpeedDown(sf)
      [] key = "KeyR" -> 10

KeySpeed ==
    /\ UserActs
    /\ \E key \in SpeedKeys : SetSpeed(setSpeedFactor(SpeedNow, speedKeyValue(key, speedFactor)))
    /\ UNCHANGED <<cameraState, selectedPlanet, selectedFrom>>
    /\ CameraUntouched
    /\ touchEnd' = NoTouch
    /\ ServicesUntouched

\* MobileGestureHandler: what a touch that ends may have measured (pixels and
\* milliseconds): a tap, swipes to the left, to the right and upwards, a slow
\* drag and a short move
Touches ==
    {[deltaX |-> 3, deltaY |-> 4, deltaTime |-> 100],
     [deltaX |-> -80, deltaY |-> 10, deltaTime |-> 200],
     [deltaX |-> 80, deltaY |-> 10, deltaTime |-> 200],
     [deltaX |-> 10, deltaY |-> -80, deltaTime |-> 200],
     [deltaX |-> 80, deltaY |-> 0, deltaTime |-> 600],
     [deltaX |-> 30, deltaY |-> 0, deltaTime |-> 100]}

\* distance = Math.sqrt(deltaX * deltaX + deltaY * deltaY), compared by squares
isTap(t) == t.deltaX * t.deltaX + t.deltaY * t.deltaY < 10 * 10 /\ t.deltaTime < 300
isSwipe(t) == t.deltaX * t.deltaX + t.deltaY * t.deltaY > 50 * 50 /\ t.deltaTime < 500

NotSun(p) == ~p.isSun
\* planetsData.filter(p => !p.isSun)
SwipePlanets == SelectSeq(planetsData, NotSun)

\* planets.findIndex(p => p.id === selectedPlanet.id), counted from 0, -1 if
\* there is none or nothing is selected
swipeCurrentIndex(selected) ==
    LET hits == {i \in 1..Len(SwipePlanets) : SwipePlanets[i].id = selected.id}
    IN  IF selected = NoSelection \/ hits = {} THEN -1
        ELSE (CHOOSE i \in hits : \A j \in hits : i <= j) - 1

\* MobileGestureHandler.handleTouchEnd(e) for a touch of one finger
handleTouchEnd(t) ==
    LET currentIndex == swipeCurrentIndex(selectedPlanet)
        keep == UNCHANGED <<selectedPlanet, speedFactor, userSpeed, overridden,
                            cameraState, selectedFrom>>
        select(planet) == /\ selectedPlanet' = planet
                          /\ SetSpeed(overrideSpeedFactor(SpeedNow))
                          /\ cameraState' = "ZOOMING_IN"
                          /\ selectedFrom' = cameraState
    IN  IF isTap(t)
        THEN IF cameraState = "DETAIL_VIEW"
             THEN /\ cameraState' = "MOVING_TO_HOME"
                  /\ selectedPlanet' = NoSelection
                  /\ SetSpeed(restoreSpeedFactor(SpeedNow))
                  /\ selectedFrom' = "NONE"
             ELSE keep
        ELSE IF isSwipe(t) /\ cameraState = "FREE" /\ Abs(t.deltaX) > Abs(t.deltaY)
             THEN IF t.deltaX > 0 /\ currentIndex > 0
                  THEN select(SwipePlanets[currentIndex])
                  ELSE IF t.deltaX < 0 /\ currentIndex < Len(SwipePlanets) - 1
                       THEN select(SwipePlanets[currentIndex + 2])
                       ELSE keep
             ELSE keep

HandleTouchEnd ==
    /\ UserActs
    /\ \E t \in Touches : handleTouchEnd(t) /\ touchEnd' = t
    /\ ServicesUntouched
    /\ CameraUntouched

\* SpeedControl.js: const SPEED_PRESETS = [0, 1, 2, 5, 10]
SPEED_PRESETS == <<0, 10, 20, 50, 100>>

\* const isDisabled = cameraState === 'ZOOMING_IN' || cameraState === 'DETAIL_VIEW'
isDisabled(state) == state \in {"ZOOMING_IN", "DETAIL_VIEW"}

\* SpeedControl.handleCycleSpeed(): the value it sets
nextPresetSpeed(sf) ==
    SPEED_PRESETS[((findPresetIndex(SPEED_PRESETS, sf) + 1) % Len(SPEED_PRESETS)) + 1]

handleCycleSpeed ==
    IF ~isDisabled(cameraState)
    THEN SetSpeed(setSpeedFactor(SpeedNow, nextPresetSpeed(speedFactor)))
    ELSE UNCHANGED <<speedFactor, userSpeed, overridden>>

HandleCycleSpeed ==
    /\ UserActs
    /\ handleCycleSpeed
    /\ UNCHANGED <<cameraState, selectedPlanet, selectedFrom>>
    /\ CameraUntouched
    /\ touchEnd' = NoTouch
    /\ ServicesUntouched

---------------------------------------------------------------------------
(* lib/rate-limiter.ts and the NASA API routes (app/api/nasa).  Times are  *)
(* counted in units of the model's clock; the limiter of the model is a    *)
(* RateLimiter with a small limit and a window of a few units.             *)

StartTime == 1

ClockTick ==
    /\ now < MaxTime
    /\ now' = now + 1

\* new RateLimiter(limit, windowMs); the LRUCache gets ttl: windowMs
RateLimiter(limit, windowMs) == [limit |-> limit, window |-> windowMs, ttl |-> windowMs]

\* export const nasaRateLimiter = new RateLimiter(900, 60 * 60 * 1000), scaled
nasaRateLimiter == RateLimiter(LimiterLimit, LimiterWindow)

Identifiers == {"global", "client"}

\* an identifier the LRUCache holds nothing for
NoTimestamps == [present |-> FALSE, timestamps |-> <<>>, start |-> 0]

\* this.cache.get(identifier) || []: an entry older than its ttl is stale and
\* is not returned
cacheGet(limiter, cache, identifier, time) ==
    IF ~cache[identifier].present \/ time - cache[identifier].start > limiter.ttl
    THEN <<>>
    ELSE cache[identifier].timestamps

\* this.cache.set(identifier, validTimestamps)
cacheSet(cache, identifier, timestamps, time) ==
    [cache EXCEPT ![identifier] = [present |-> TRUE, timestamps |-> timestamps,
                                   start |-> time]]

\* variant: the limit is taken as reached only when it is exceeded
limitExceeded(remaining) == remaining < 0
\* if (remaining <= 0)
limitReached(remaining) == remaining <= 0

\* RateLimiter.check(identifier): the result and the cache after the call
check(limiter, cache, identifier, time) ==
    LET timestamps == cacheGet(limiter, cache, identifier, time)
        validTimestamps == SelectSeq(timestamps, LAMBDA t : time - t < limiter.window)
        remaining == limiter.limit - Len(validTimestamps)
        reset == IF validTimestamps # <<>> /\ validTimestamps[1] # 0
                 THEN validTimestamps[1] + limiter.window
                 ELSE time + limiter.window
    IN  IF limitReached(remaining)
        THEN [result |-> [success |-> FALSE, limit |-> limiter.limit, remaining |-> 0,
                          reset |-> reset],
              cache |-> cache]
        ELSE [result |-> [success |-> TRUE, limit |-> limiter.limit,
                          remaining |-> remaining - 1, reset |-> reset],
              cache |-> cacheSet(cache, identifier, Append(validTimestamps, time), time)]

NoCheck == [success |-> FALSE, limit |-> 0, remaining |-> 0, reset |-> 0]

\* the bookkeeping of a check: the cache, the result and the times granted
Checked(identifier, c) ==
    /\ limiterCache' = c.cache
    /\ lastCheck' = c.result
    /\ granted' = IF c.result.success
                  THEN [granted EXCEPT ![identifier] = Append(@, now)]
                  ELSE granted

\* a caller of the limiter with an identifier of its own
Check ==
    /\ \E identifier \in Identifiers :
          Checked(identifier, check(nasaRateLimiter, limiterCache, identifier, now))
    /\ UNCHANGED <<now, lastRequest>>

\* what the upstream NASA service may do with a request: answer with images,
\* answer with none, answer with an error status, or fail to answer
UpstreamReplies ==
    {[threw |-> FALSE, ok |-> TRUE, status |-> 200, images |-> TRUE],
     [threw |-> FALSE, ok |-> TRUE, status |-> 200, images |-> FALSE],
     [threw |-> FALSE, ok |-> FALSE, status |-> 503, images |-> FALSE],
     [threw |-> TRUE, ok |-> FALSE, status |-> 0, images |-> FALSE]}

NoRequest == [route |-> "", status |-> 0, checked |-> "none", contacted |-> FALSE]

\* handleError and the catch block of a route: an AppError keeps its status,
\* anything else becomes 500
upstreamStatus(upstream, found) ==
    IF upstream.threw THEN 500
    ELSE IF ~upstream.ok THEN upstream.status
    ELSE IF found THEN 200 ELSE 404

\* GET of the planet and of the moon image route: validation, rate-limit check,
\* image search, first valid image or 404
imageSearchGET(route, validName, upstream, c) ==
    IF ~validName
    THEN [request |-> [route |-> route, status |-> 400, checked |-> "none",
                       contacted |-> FALSE],
          checked |-> FALSE]
    ELSE IF ~c.result.success
         THEN [request |-> [route |-> route, status |-> 429, checked |-> "failed",
                            contacted |-> FALSE],
               checked |-> TRUE]
         ELSE [request |-> [route |-> route,
                            status |-> upstreamStatus(upstream, upstream.images),
                            checked |-> "passed", contacted |-> TRUE],
               checked |-> TRUE]

\* app/api/nasa/planet/[name]/route.ts GET
planetGET(validName, upstream, c) == imageSearchGET("planet", validName, upstream, c)

\* app/api/nasa/moon/[name]/route.ts GET
moonGET(validName, upstream, c) == imageSearchGET("moon", validName, upstream, c)

\* app/api/nasa/apod/route.ts GET: validation of the date, then the fetch
apodGET(validDate, upstream, c) ==
    IF ~validDate
    THEN [request |-> [route |-> "apod", status |-> 400, checked |-> "none",
                       contacted |-> FALSE],
          checked |-> FALSE]
    ELSE [request |-> [route |-> "apod", status |-> upstreamStatus(upstream, TRUE),
                       checked |-> "none", contacted |-> TRUE],
          checked |-> FALSE]

\* app/api/nasa/neo/route.ts GET: validation of the dates, then the fetch
neoGET(validDates, upstream, c) ==
    IF ~validDates
    THEN [request |-> [route |-> "neo", status |-> 400, checked |-> "none",
                       contacted |-> FALSE],
          checked |-> FALSE]
    ELSE [request |-> [route |-> "neo", status |-> upstreamStatus(upstream, TRUE),
                       checked |-> "none", contacted |-> TRUE],
          checked |-> FALSE]

NasaRoutes == {"planet", "moon", "apod", "neo"}

routeGET(route, valid, upstream, c) ==
    CASE route = "planet" -> planetGET(valid, upstream, c)
      [] route = "moon" -> moonGET(valid, upstream, c)
      [] route = "apod" -> apodGET(valid, upstream, c)
      [] route = "neo" -> neoGET(valid, upstream, c)

\* one request to a route, answered; c is nasaRateLimiter.check() as the
\* route would get it, and it takes effect only if the route calls it
RouteGET ==
    /\ \E route \in NasaRoutes, valid \in BOOLEAN, upstream \in UpstreamReplies :
         \E c \in {check(nasaRateLimiter, limiterCache, "global", now)} :
           \E answer \in {routeGET(route, valid, upstream, c)} :
              /\ lastRequest' = answer.request
              /\ IF answer.checked
                 THEN Checked("global", c)
                 ELSE UNCHANGED <<limiterCache, lastCheck, granted>>
    /\ UNCHANGED now

LimiterInit ==
    /\ now = StartTime
    /\ limiterCache = [identifier \in Identifiers |-> NoTimestamps]
    /\ granted = [identifier \in Identifiers |-> <<>>]
    /\ lastCheck = NoCheck
    /\ lastRequest = NoRequest

---------------------------------------------------------------------------
(* lib/texture-manager.ts.  A texture path is its base name, its quality   *)
(* suffix ("" if it has none) and its extension; a texture is named by the *)
(* number of the load that produced it.                                    *)

TexturePaths ==
    {[base |-> "earth", quality |-> "2k", ext |-> "webp"],
     [base |-> "earth", quality |-> "4k", ext |-> "webp"],
     [base |-> "sun", quality |-> "", ext |-> "jpg"]}

\* options.quality; "" if the caller asks for none
RequestedQualities == {"", "4k"}

DeviceCapabilities ==
    {[isMobile |-> FALSE, isLowEnd |-> FALSE],
     [isMobile |-> TRUE, isLowEnd |-> FALSE],
     [isMobile |-> TRUE, isLowEnd |-> TRUE]}

\* TextureManager.selectTextureQuality(basePath, requestedQuality)
selectTextureQuality(deviceCapabilities, basePath, requestedQuality) ==
    IF basePath.quality = "" THEN basePath
    ELSE [basePath EXCEPT !.quality =
            IF requestedQuality # "" THEN requestedQuality
            ELSE IF deviceCapabilities.isLowEnd THEN "1k"
            ELSE "2k"]

\* the cache keys there can be
TextureKeys ==
    {selectTextureQuality(d, path, q) :
        d \in DeviceCapabilities, path \in TexturePaths, q \in RequestedQualities}

\* no texture, no promise
None == 0

\* variant: the loading queue is never consulted
queueHasNever(manager, cacheKey) == FALSE
\* this.loadingQueue.has(cacheKey)
queueHas(manager, cacheKey) == manager.loadingQueue[cacheKey] # None

NoLoadCall == [key |-> "", returned |-> "", id |-> None, started |-> FALSE]

\* TextureManager.loadTexture(path, options) up to its return
loadTexture(path, quality) ==
    LET cacheKey == selectTextureQuality(textureManager.deviceCapabilities, path, quality)
    IN  IF textureManager.cache[cacheKey] # None
        THEN /\ lastLoadCall' = [key |-> cacheKey, returned |-> "texture",
                                 id |-> textureManager.cache[cacheKey], started |-> FALSE]
             /\ UNCHANGED <<textureManager, loads, loadsStarted>>
        ELSE IF queueHas(textureManager, cacheKey)
        THEN /\ lastLoadCall' = [key |-> cacheKey, returned |-> "promise",
                                 id |-> textureManager.loadingQueue[cacheKey],
                                 started |-> FALSE]
             /\ UNCHANGED <<textureManager, loads, loadsStarted>>
        ELSE /\ loadsStarted < MaxLoads
             /\ loadsStarted' = loadsStarted + 1
             /\ loads' = loads \cup {[key |-> cacheKey, id |-> loadsStarted + 1]}
             /\ textureManager' =
                  [textureManager EXCEPT !.loadingQueue[cacheKey] = loadsStarted + 1]
             /\ lastLoadCall' = [key |-> cacheKey, returned |-> "promise",
                                 id |-> loadsStarted + 1, started |-> TRUE]

LoadTexture ==
    /\ \E path \in TexturePaths, quality \in RequestedQualities : loadTexture(path, quality)
    /\ UNCHANGED queueCleared

\* the queue is in order again once no load is in flight
StillCleared(remaining) == queueCleared /\ remaining # {}

\* the onLoad callback of loadTexture
LoadSucceeds ==
    \E load \in loads :
        /\ textureManager' = [textureManager EXCEPT !.cache[load.key] = load.id,
                                                    !.loadingQueue[load.key] = None]
        /\ loads' = loads \ {load}
        /\ queueCleared' = StillCleared(loads \ {load})
        /\ UNCHANGED <<loadsStarted, lastLoadCall>>

\* the onError callback of loadTexture
LoadFails ==
    \E load \in loads :
        /\ textureManager' = [textureManager EXCEPT !.loadingQueue[load.key] = None]
        /\ loads' = loads \ {load}
        /\ queueCleared' = StillCleared(loads \ {load})
        /\ UNCHANGED <<loadsStarted, lastLoadCall>>

\* TextureManager.disposeTexture(texturePath)
DisposeTexture ==
    /\ \E texturePath \in TextureKeys :
          textureManager' =
             IF textureManager.cache[texturePath] # None
             THEN [textureManager EXCEPT !.cache[texturePath] = None]
             ELSE textureManager
    /\ UNCHANGED <<loads, loadsStarted, lastLoadCall, queueCleared>>

\* TextureManager.disposeAll()
DisposeAll ==
    /\ textureManager' = [textureManager EXCEPT
                            !.cache = [k \in TextureKeys |-> None],
                            !.loadingQueue = [k \in TextureKeys |-> None]]
    /\ queueCleared' = (queueCleared \/ loads # {})
    /\ UNCHANGED <<loads, loadsStarted, lastLoadCall>>

\* TextureManager.getInstance(): the constructor, on one of these devices
TexturesInit(devices) ==
    /\ textureManager \in
          {[cache |-> [k \in TextureKeys |-> None],
            loadingQueue |-> [k \in TextureKeys |-> None],
            deviceCapabilities |-> d] : d \in devices}
    /\ loads = {}
    /\ loadsStarted = 0
    /\ lastLoadCall = NoLoadCall
    /\ queueCleared = FALSE

---------------------------------------------------------------------------
(* services/nasaAPI.js: NASAAPIService._fetchWithCache.  The data of a     *)
(* response is named by the number of the fetch that brought it.           *)

\* _getCacheKey(endpoint, params) of getAPOD() and of getPlanetImage('Earth')
CacheKeys == {"apod_{\"date\":null}", "planet_image_{\"planetName\":\"Earth\"}"}

NoCacheEntry == [present |-> FALSE, data |-> 0, timestamp |-> 0]

\* variant: an entry is still valid at the very end of the cache duration
isCacheValidAtEnd(cacheEntry, time) ==
    cacheEntry.present /\ time - cacheEntry.timestamp <= CacheDuration
\* NASAAPIService._isCacheValid(cacheEntry)
isCacheValid(cacheEntry, time) ==
    cacheEntry.present /\ time - cacheEntry.timestamp < CacheDuration

NoResult == [key |-> "", outcome |-> "", data |-> 0]

\* _fetchWithCache(url, cacheKey) up to its return or its await fetch(url)
fetchWithCache(cacheKey) ==
    LET cached == nasaCache[cacheKey]
    IN  IF cached.present /\ isCacheValid(cached, now)
        THEN /\ lastResult' = [key |-> cacheKey, outcome |-> "cached", data |-> cached.data]
             /\ UNCHANGED <<nasaCache, fetches, fetchesStarted, lastSuccess>>
        ELSE /\ fetchesStarted < MaxFetches
             /\ fetchesStarted' = fetchesStarted + 1
             /\ fetches' = fetches \cup {[id |-> fetchesStarted + 1, key |-> cacheKey,
                                         cached |-> cached]}
             /\ UNCHANGED <<nasaCache, lastResult, lastSuccess>>

FetchWithCache ==
    /\ \E cacheKey \in CacheKeys : fetchWithCache(cacheKey)
    /\ UNCHANGED now

\* the fetch answered ok: lines 32 to 38
FetchSucceeds ==
    /\ \E f \in fetches :
          /\ nasaCache' = [nasaCache EXCEPT
                             ![f.key] = [present |-> TRUE, data |-> f.id, timestamp |-> now]]
          /\ lastResult' = [key |-> f.key, outcome |-> "fetched", data |-> f.id]
          /\ lastSuccess' = [lastSuccess EXCEPT ![f.key] = now]
          /\ fetches' = fetches \ {f}
    /\ UNCHANGED <<now, fetchesStarted>>

\* the catch block of _fetchWithCache, for a call with this cached entry
fetchFailed(cacheKey, cached) ==
    IF cached.present
    THEN [key |-> cacheKey, outcome |-> "stale", data |-> cached.data]
    ELSE [key |-> cacheKey, outcome |-> "error", data |-> 0]

\* the fetch threw or answered with an error status: lines 30 and 39 to 44
FetchFails ==
    /\ \E f \in fetches :
          /\ lastResult' = fetchFailed(f.key, f.cached)
          /\ fetches' = fetches \ {f}
    /\ UNCHANGED <<now, nasaCache, fetchesStarted, lastSuccess>>

\* NASAAPIService.clearCache()
ClearCache ==
    /\ nasaCache' = [k \in CacheKeys |-> NoCacheEntry]
    /\ lastSuccess' = [k \in CacheKeys |-> 0]
    /\ UNCHANGED <<now, fetches, fetchesStarted, lastResult>>

\* export const nasaAPI = new NASAAPIService()
ClientInit ==
    /\ nasaCache = [k \in CacheKeys |-> NoCacheEntry]
    /\ fetches = {}
    /\ fetchesStarted = 0
    /\ lastResult = NoResult
    /\ lastSuccess = [k \in CacheKeys |-> 0]

\* the device of the scenarios: a desktop
Desktop == [isMobile |-> FALSE, isLowEnd |-> FALSE]

ServicesInit ==
    /\ LimiterInit
    /\ TexturesInit({Desktop})
    /\ ClientInit

---------------------------------------------------------------------------
(* Specifications *)

InitCamera ==
    /\ cameraState = "INTRO_ANIMATION"
    /\ selectedPlanet = NoSelection
    /\ planetOrbitProgress = [n \in PlanetNames |-> 0]
    /\ planetPositions = [n \in {b.name : b \in RenderedPlanets} |-> NoPosition]
    /\ cameraPosition = InitialCameraPosition
    /\ invisibleTarget = Origin
    /\ controls = [enabled |-> TRUE, target |-> Origin, minDistance |-> 0,
                   maxDistance |-> Infinity]
    /\ introAnimationCompleted = FALSE
    /\ resolvedPosition = NoPosition
    /\ frame = 0
    /\ selectedFrom = "NONE"
    /\ progressMapId = 0
    /\ touchEnd = NoTouch

\* the simulation is paused: the orbits stand still (scenarios B, C, D and P4)
InitScene ==
    /\ InitCamera
    /\ speedFactor = 0
    /\ userSpeed = 0
    /\ overridden = FALSE
    /\ originalSpeed = 0
    /\ inputsLeft = MaxInputs

Init == InitScene /\ ServicesInit

Next ==
    \/ Tick
    \/ SelectPlanetByIndex
    \/ HandlePlanetClick
    \/ HandleSelect
    \/ HandleMoonClick
    \/ GoHome
    \/ EscapeKey
    \/ HandleTouchEnd

Spec == Init /\ [][Next]_vars

\* a step of the render loop: only Tick advances the frame counter
RenderedFrame == frame' = (frame + 1) % InputPeriod

\* the host render loop keeps calling the frame callbacks.  With the
\* simulation paused Tick is enabled in every state, so this is WF_vars(Tick).
FairSpec == Spec /\ WF_frame(RenderedFrame)

\* the speeds the user can have set: the presets of the button and of the keys
UserSpeeds == {0, 5, 10, 20, 50, 100}

\* the simulation runs and the user may also press the speed keys
InitOrbit ==
    /\ InitCamera
    /\ speedFactor = 10
    /\ userSpeed = 10
    /\ overridden = FALSE
    /\ originalSpeed = 10
    /\ inputsLeft = MaxOrbitInputs
    /\ ServicesInit

NextOrbit ==
    \/ Tick
    \/ SelectPlanetByIndex
    \/ HandlePlanetClick
    \/ HandleSelect
    \/ HandleMoonClick
    \/ GoHome
    \/ EscapeKey
    \/ HandleTouchEnd
    \/ KeySpeed
    \/ HandleCycleSpeed

SpecOrbit == InitOrbit /\ [][NextOrbit]_vars

\* the input handlers alone, from any user speed, with no frame in between
InitInput ==
    /\ InitCamera
    /\ originalSpeed \in UserSpeeds
    /\ speedFactor = originalSpeed
    /\ userSpeed = originalSpeed
    /\ overridden = FALSE
    /\ inputsLeft = MaxKeyPresses
    /\ ServicesInit

NextInput ==
    \/ SelectPlanetByIndex
    \/ HandlePlanetClick
    \/ HandleSelect
    \/ HandleMoonClick
    \/ GoHome
    \/ EscapeKey
    \/ HandleTouchEnd

SpecInput == InitInput /\ [][NextInput]_vars

\* the handlers with the speed keys and the speed button
NextSpeed ==
    \/ SelectPlanetByIndex
    \/ GoHome
    \/ KeySpeed
    \/ HandleCycleSpeed

SpecSpeed == InitInput /\ [][NextSpeed]_vars

\* the NASA API routes and their rate limiter, the scene standing still
ApiClockTick == ClockTick /\ UNCHANGED <<apiVars, textureVars, clientVars>> /\ SceneUntouched
ApiCheck == Check /\ UNCHANGED <<textureVars, clientVars>> /\ SceneUntouched
ApiRouteGET == RouteGET /\ UNCHANGED <<textureVars, clientVars>> /\ SceneUntouched

NextApi ==
    \/ ApiClockTick
    \/ ApiCheck
    \/ ApiRouteGET

SpecApi == Init /\ [][NextApi]_vars

\* the texture manager, the scene standing still
Others(own) == UNCHANGED <<now, own>> /\ SceneUntouched
TexturesLoadTexture == LoadTexture /\ Others(<<apiVars, clientVars>>)
TexturesLoadSucceeds == LoadSucceeds /\ Others(<<apiVars, clientVars>>)
TexturesLoadFails == LoadFails /\ Others(<<apiVars, clientVars>>)
TexturesDisposeTexture == DisposeTexture /\ Others(<<apiVars, clientVars>>)
TexturesDisposeAll == DisposeAll /\ Others(<<apiVars, clientVars>>)

NextTextures ==
    \/ TexturesLoadTexture
    \/ TexturesLoadSucceeds
    \/ TexturesLoadFails
    \/ TexturesDisposeTexture
    \/ TexturesDisposeAll

InitTextures ==
    /\ InitScene
    /\ LimiterInit
    /\ TexturesInit(DeviceCapabilities)
    /\ ClientInit

SpecTextures == InitTextures /\ [][NextTextures]_vars

\* the caching NASA API client, the scene standing still
Rest == UNCHANGED <<apiVars, textureVars>> /\ SceneUntouched
ClientClockTick == ClockTick /\ UNCHANGED clientVars /\ Rest
ClientFetchWithCache == FetchWithCache /\ Rest
ClientFetchSucceeds == FetchSucceeds /\ Rest
ClientFetchFails == FetchFails /\ Rest
ClientClearCache == ClearCache /\ Rest

NextClient ==
    \/ ClientClockTick
    \/ ClientFetchWithCache
    \/ ClientFetchSucceeds
    \/ ClientFetchFails
    \/ ClientClearCache

SpecClient == Init /\ [][NextClient]_vars

---------------------------------------------------------------------------
(* Properties *)

\* a step that renders a frame
FrameStep == frame' # frame
\* a step in which the user acts
InputStep == inputsLeft' # inputsLeft
\* the body in view when there is one
BodyPosition == getPlanetPosition(selectedPlanet, planetPositions)
IsPlanet(selected) == selected # NoSelection /\ ~selected.isSun /\ ~selected.isMoon

\* C1: a frame that finds the camera ZOOMING_IN with no selection, or with a
\* selection whose position cannot be resolved, leaves the camera state
\* MOVING_TO_HOME.
C1_UnresolvedZoomGoesHome ==
    [][(FrameStep /\ cameraState = "ZOOMING_IN" /\ BodyPosition = NoPosition)
         => cameraState' = "MOVING_TO_HOME"]_vars

\* the camera rests at home in FREE with nothing selected
AtHomeFree ==
    /\ cameraState = "FREE"
    /\ selectedPlanet = NoSelection
    /\ DistanceTo(cameraPosition, HOME_POSITION) < HomeEpsilon

\* a step in which the user asks to go home
GoHomeStep == InputStep /\ selectedPlanet' = NoSelection

\* C2: going home while ZOOMING_IN or in DETAIL_VIEW on a body selected from
\* FREE sets the camera state to MOVING_TO_HOME, and once MOVING_TO_HOME, unless
\* the user acts again, the camera comes to rest in FREE at home with nothing
\* selected.
C2_GoHomeReturnsToFree ==
    /\ [][(/\ GoHomeStep /\ selectedFrom = "FREE"
            /\ cameraState \in {"ZOOMING_IN", "DETAIL_VIEW"})
             => cameraState' = "MOVING_TO_HOME"]_vars
    /\ \A k \in 0..MaxInputs :
           (cameraState = "MOVING_TO_HOME" /\ inputsLeft = k)
               ~> (AtHomeFree \/ inputsLeft < k)

\* the user selected a body from FREE, saw it in DETAIL_VIEW, went home, and
\* the camera has come to rest
C2_BackHomeAfterDetail ==
    /\ AtHomeFree
    /\ introAnimationCompleted
    /\ inputsLeft = 0
    /\ controls.minDistance > 0

\* C3: ZOOMING_IN on a body that stands still (speed 0) ends in DETAIL_VIEW
\* unless the user acts again.
C3_ZoomReachesDetail ==
    \A k \in 0..MaxInputs :
        (cameraState = "ZOOMING_IN" /\ speedFactor = 0 /\ inputsLeft = k)
            ~> (cameraState = "DETAIL_VIEW" \/ inputsLeft < k)

\* the zoom onto a body selected from FREE has ended in DETAIL_VIEW
C3_ZoomEnded ==
    /\ cameraState = "DETAIL_VIEW"
    /\ selectedFrom = "FREE"
    /\ speedFactor = 0
    /\ inputsLeft = 0

\* the errors ZOOMING_IN measures after moving the camera and the look-at point
ZoomPositionError ==
    DistanceTo(Lerp(cameraPosition, ZoomTargetPosition(BodyPosition, selectedPlanet),
                    LERP_FACTOR),
               ZoomTargetPosition(BodyPosition, selectedPlanet))
ZoomLookAtError ==
    DistanceTo(Lerp(invisibleTarget, BodyPosition, FAST_LERP_FACTOR), BodyPosition)

\* C4: the camera goes from ZOOMING_IN to DETAIL_VIEW only in a frame in which
\* both the position error and the look-at error are below
\* radius * POSITION_EPSILON.
C4_DetailOnlyWhenBothReached ==
    [][(cameraState = "ZOOMING_IN" /\ cameraState' = "DETAIL_VIEW")
         => /\ BodyPosition # NoPosition
            /\ ZoomPositionError < RadiusEpsilon(selectedPlanet)
            /\ ZoomLookAtError < RadiusEpsilon(selectedPlanet)]_vars

\* a frame has left the camera ZOOMING_IN with the look-at point arrived and
\* the camera not yet
C4_OnlyLookAtReached ==
    /\ cameraState = "ZOOMING_IN"
    /\ resolvedPosition # NoPosition
    /\ BodyPosition # NoPosition
    /\ DistanceTo(invisibleTarget, BodyPosition) < RadiusEpsilon(selectedPlanet)
    /\ ZoomPositionError >= RadiusEpsilon(selectedPlanet)

\* C5: when the camera enters DETAIL_VIEW on a planet that was selected from
\* FREE with the speed at 0, its distance from the planet is between
\* radius * MIN and radius * MAX.
C5_DetailEntryWithinLimits ==
    [][(/\ cameraState = "ZOOMING_IN" /\ cameraState' = "DETAIL_VIEW"
        /\ selectedFrom = "FREE" /\ IsPlanet(selectedPlanet) /\ speedFactor = 0)
         => LET d == DistanceTo(cameraPosition', BodyPosition)
                config == DetailDistanceConfig(selectedPlanet)
            IN  /\ d >= (selectedPlanet.radius * config.MIN) \div 10
                /\ d <= (selectedPlanet.radius * config.MAX) \div 10]_vars

\* C6: after every frame rendered in FREE the controls are enabled and carry
\* no distance limit, neither a minimum nor a maximum.
C6_FreeIsUnconstrained ==
    [][(FrameStep /\ cameraState = "FREE")
         => /\ controls'.enabled
            /\ controls'.minDistance = 0
            /\ controls'.maxDistance = Infinity]_vars

\* C7: while the camera is in INTRO_ANIMATION an input of the user changes
\* neither the camera state nor the selection.
C7_IntroIgnoresInput ==
    [][(InputStep /\ cameraState = "INTRO_ANIMATION")
         => /\ cameraState' = cameraState
            /\ selectedPlanet' = selectedPlanet]_vars

\* C8: whatever bodies are selected one after another, the user's speed stays
\* stored under the override, and going home puts the current speed back to
\* the speed the user had before the first selection.
C8_NestedOverrideRestores ==
    /\ [](overridden => (userSpeed = originalSpeed /\ speedFactor = OverrideSpeed))
    /\ [][GoHomeStep => (speedFactor' = originalSpeed /\ ~overridden')]_vars

\* a second body was selected while the first selection's override was on
C8_SelectedTwice ==
    /\ overridden
    /\ selectedFrom = "ZOOMING_IN"
    /\ originalSpeed = 20
    /\ userSpeed = 20
    /\ speedFactor = OverrideSpeed

\* C9: the position the camera step of a frame resolves for a selected
\* planet is the position the orbital model computes in that same frame.
C9_CameraReadsSameFramePositions ==
    [][(FrameStep /\ IsPlanet(selectedPlanet) /\ resolvedPosition' # NoPosition)
         => resolvedPosition'
              = PlanetXZ(selectedPlanet, planetOrbitProgress'[selectedPlanet.name])]_vars

\* the world position of the moon's parent: where Planets.js puts its group
ParentWorldPosition == PlanetXZ(MoonParent, planetOrbitProgress[MoonParent.name])

\* C10: selecting a moon stores the parent's world position plus the moon's
\* local offset, and frames rendered afterwards leave the stored position as
\* it is.
C10_MoonPositionIsWorldPosition ==
    [][/\ (InputStep /\ selectedPlanet'.isMoon)
           => \E localPosition \in MoonLocalPositions :
                  selectedPlanet'.position = VecAdd(ParentWorldPosition, localPosition)
       /\ (FrameStep /\ selectedPlanet.isMoon)
           => selectedPlanet'.position = selectedPlanet.position]_vars

\* 100 * orbitRadius^1.5, the orbit radius in scene units
SqrtCube100(planet) ==
    LET r == planet.position[1] \div Scale
    IN  ISqrt(r * r * r * 10000)

\* two advances agree to one percent (and one rounding step of the model)
Close(a, b) == Abs(a - b) * 100 <= b + 100

\* orbitSpeed * 50 * orbitRadius^(-1.5) * speedFactor * deltaTime, taken as
\* radians, in micro-radians (sf in tenths, dt in milliseconds)
AdvanceAsRadians(planet, sf, dt) ==
    (planet.orbitSpeed * 500000 * sf * dt) \div SqrtCube100(planet)

\* the same product taken as degrees: times pi / 180 (50 * pi / 180 = 0.87266)
AdvanceAsDegrees(planet, sf, dt) ==
    (planet.orbitSpeed * 87266 * sf * dt) \div (10 * SqrtCube100(planet))

C12_StarPinnedAtOrigin ==
    /\ [](planetOrbitProgress[Sun.name] = 0 /\ getPlanetPosition(Sun, planetPositions) = Origin)
    /\ [][(FrameStep /\ selectedPlanet.isSun /\ cameraState \in {"ZOOMING_IN", "DETAIL_VIEW"})
             => resolvedPosition' = Origin]_vars

\* the star is in view and frames have advanced the planets
C12_StarInViewWhilePlanetsMove ==
    /\ selectedPlanet.isSun
    /\ resolvedPosition = Origin
    /\ speedFactor > 0
    /\ planetOrbitProgress[Earth.name] > 0

\* what a frame adds to the orbit progress of a body
FrameAdvance(b) == planetOrbitProgress'[b.name] - planetOrbitProgress[b.name]

\* C13: of two planets with the same orbit speed, a frame rendered at a
\* positive speed advances the one on the smaller orbit strictly more, so from
\* equal progress the inner planet is strictly ahead after the frame.
C13_InnerPlanetOutpacesOuter ==
    [][(FrameStep /\ speedFactor > 0)
         => \A a, b \in RenderedPlanets :
               (a.position[1] < b.position[1] /\ a.orbitSpeed = b.orbitSpeed)
                   => /\ FrameAdvance(a) > FrameAdvance(b)
                      /\ planetOrbitProgress[a.name] = planetOrbitProgress[b.name]
                             => planetOrbitProgress'[a.name] > planetOrbitProgress'[b.name]]_vars

\* both planets have moved from progress 0 and the inner one is ahead
C13_InnerPlanetAhead ==
    /\ Earth.orbitSpeed = Jupiter.orbitSpeed
    /\ planetOrbitProgress[Jupiter.name] > 0
    /\ planetOrbitProgress[Earth.name] > planetOrbitProgress[Jupiter.name]

\* C14: a frame returns a new progress map only if the progress of some body
\* changed in it; at speed 0 it returns the previous map itself, and no
\* progress value and no entry of the registry changes.
C14_NewMapOnlyOnChange ==
    [][FrameStep
         => /\ progressMapId' # progressMapId
                => \E n \in PlanetNames : planetOrbitProgress'[n] # planetOrbitProgress[n]
            /\ speedFactor = 0
                => /\ progressMapId' = progressMapId
                   /\ planetOrbitProgress' = planetOrbitProgress
                   /\ \A n \in DOMAIN planetPositions :
                          planetPositions[n] # NoPosition
                              => planetPositions'[n] = planetPositions[n]]_vars

\* the planets have moved, and frames are now rendered at speed 0
C14_StoppedAfterMoving ==
    /\ speedFactor = 0
    /\ frame > 1
    /\ planetOrbitProgress[Earth.name] > 0

\* a planet of the catalog's shape that no <Planet> has registered
UnregisteredPlanet == [Earth EXCEPT !.id = 99, !.name = "Vulcan"]

HasNoEntry(b) == b.name \notin DOMAIN planetPositions \/ planetPositions[b.name] = NoPosition

\* C15: resolving the position of a planet whose name has no entry in the
\* registry yields no position, never the origin or another default.
C15_MissingEntryIsNotFound ==
    /\ [](\A b \in RenderedPlanets \cup {UnregisteredPlanet} :
              HasNoEntry(b) => getPlanetPosition(b, planetPositions) = NoPosition)
    /\ [][(/\ FrameStep /\ cameraState \in {"ZOOMING_IN", "DETAIL_VIEW"}
            /\ IsPlanet(selectedPlanet) /\ HasNoEntry(selectedPlanet))
             => resolvedPosition' = NoPosition]_vars

\* the first frame has asked for a planet selected before the registry was written
C15_AskedBeforeRegistered ==
    /\ frame = 1
    /\ cameraState = "ZOOMING_IN"
    /\ IsPlanet(selectedPlanet)
    /\ inputsLeft = MaxInputs - 1
    /\ resolvedPosition = NoPosition

SelectionUntouched == UNCHANGED <<selectedPlanet, speedFactor, userSpeed, overridden, cameraState>>

\* C16: a selection request for a body the catalog does not hold (an index out
\* of range, an unknown id, an unknown name) changes neither the selection nor
\* the speed nor the camera state, in whatever camera state it arrives.
C16_UnknownBodyIsIgnored ==
    [][InputStep
         => /\ \A index \in RequestedIndexes :
                  (index < 0 \/ index >= Len(planetsData))
                      => (selectPlanetByIndex(index) => SelectionUntouched)
            /\ handlePlanetClick(UnknownId) => SelectionUntouched
            /\ handleSelect(UnknownName) => SelectionUntouched]_vars

\* two requests arrived during the intro animation and it still runs: both
\* named a body the catalog does not hold
C16_IgnoredDuringIntro ==
    /\ cameraState = "INTRO_ANIMATION"
    /\ inputsLeft = 0
    /\ frame > 0

\* C17: after every frame rendered in ZOOMING_IN or MOVING_TO_HOME the
\* controls are disabled, whether or not the position of the selected body
\* could be resolved in that frame.
C17_ControlsOffWhileCameraMoves ==
    [][(FrameStep /\ cameraState \in {"ZOOMING_IN", "MOVING_TO_HOME"})
         => ~controls'.enabled]_vars

\* the convergence tests of the two states that lead to FREE, on the pose
\* the frame computes
IntroConverges ==
    /\ ~introAnimationCompleted
    /\ DistanceTo(Lerp(cameraPosition, HOME_POSITION, INTRO_LERP_FACTOR), HOME_POSITION)
           < INTRO_EPSILON
HomeConverges ==
    /\ DistanceTo(Lerp(cameraPosition, HOME_POSITION, LERP_FACTOR), HOME_POSITION)
           < HomeEpsilon
    /\ DistanceTo(Lerp(invisibleTarget, Origin, LERP_FACTOR), Origin) < HomeEpsilon

\* C18: the camera state becomes FREE only in a frame, only from
\* INTRO_ANIMATION or MOVING_TO_HOME, and only if the convergence test of that
\* state passes in the frame; no input sets it.
C18_FreeOnlyOnConvergence ==
    [][(cameraState # "FREE" /\ cameraState' = "FREE")
         => /\ FrameStep
            /\ \/ cameraState = "INTRO_ANIMATION" /\ IntroConverges
               \/ cameraState = "MOVING_TO_HOME" /\ HomeConverges]_vars

\* FREE has just been entered from MOVING_TO_HOME: the intro animation never
\* completed and the FREE case has not yet enabled the controls
C18_FreeJustEnteredFromHome ==
    /\ cameraState = "FREE"
    /\ ~introAnimationCompleted
    /\ ~controls.enabled

\* a step in which the user asks for another speed, by a key or by the button
SpeedRequestStep ==
    /\ InputStep
    /\ UNCHANGED <<cameraState, selectedPlanet>>
    /\ \/ \E key \in SpeedKeys :
              SetSpeed(setSpeedFactor(SpeedNow, speedKeyValue(key, speedFactor)))
       \/ handleCycleSpeed

\* C19: while the camera state is ZOOMING_IN or DETAIL_VIEW no speed request
\* of the user, from the button or from the keyboard, changes the speed factor.
C19_SpeedLockedInPlanetView ==
    [][(SpeedRequestStep /\ cameraState \in {"ZOOMING_IN", "DETAIL_VIEW"})
         => speedFactor' = speedFactor]_vars

\* an input step that is the end of a horizontal swipe
SwipeStep ==
    /\ InputStep
    /\ isSwipe(touchEnd')
    /\ Abs(touchEnd'.deltaX) > Abs(touchEnd'.deltaY)

\* the planet a swipe goes to from the selected one: the previous one on a
\* swipe to the right, the next one on a swipe to the left
SwipeNeighbour(selected, t) ==
    LET currentIndex == swipeCurrentIndex(selected)
    IN  IF t.deltaX > 0 /\ currentIndex > 0 THEN SwipePlanets[currentIndex]
        ELSE IF t.deltaX < 0 /\ currentIndex >= 0 /\ currentIndex < Len(SwipePlanets) - 1
             THEN SwipePlanets[currentIndex + 2]
             ELSE NoSelection

\* C20: when a planet is selected, a horizontal swipe to the left or to the
\* right changes the selection to the next or the previous planet and sets the
\* camera state to ZOOMING_IN.
C20_SwipeGoesToNeighbour ==
    [][(/\ SwipeStep
        /\ selectedPlanet # NoSelection
        /\ SwipeNeighbour(selectedPlanet, touchEnd') # NoSelection)
         => (/\ selectedPlanet' = SwipeNeighbour(selectedPlanet, touchEnd')
             /\ cameraState' = "ZOOMING_IN")]_vars

\* C26: selecting another body while the camera state is DETAIL_VIEW, from the
\* menu or by a digit key, replaces the selection and sets the camera state
\* to ZOOMING_IN in that same step, with no MOVING_TO_HOME or FREE in between.
C26_ReselectGoesStraightToZoom ==
    [][cameraState = "DETAIL_VIEW" =>
         /\ \A planetName \in PlanetNames :
               (/\ FindByName(planetName).id # selectedPlanet.id
                /\ UserActs /\ handleSelect(planetName))
                 => (/\ selectedPlanet' = FindByName(planetName)
                     /\ cameraState' = "ZOOMING_IN")
         /\ \A index \in 0..(Len(planetsData) - 1) :
               (/\ planetsData[index + 1] # selectedPlanet
                /\ UserActs /\ selectPlanetByIndex(index))
                 => (/\ selectedPlanet' = planetsData[index + 1]
                     /\ cameraState' = "ZOOMING_IN")]_vars

\* another planet was selected out of the detail view and the zoom to it began
C26_ReselectedFromDetail ==
    /\ cameraState = "ZOOMING_IN"
    /\ selectedFrom = "DETAIL_VIEW"
    /\ IsPlanet(selectedPlanet)
    /\ inputsLeft = 0

\* C27: Escape pressed with a body selected in DETAIL_VIEW sets the camera
\* state to MOVING_TO_HOME, clears the selection and restores the speed; pressed
\* in any other camera state it changes none of camera state, selection and
\* speed factor.
C27_EscapeLeavesOnlyDetailView ==
    [][(UserActs /\ escapeKey) =>
         IF selectedPlanet # NoSelection /\ cameraState = "DETAIL_VIEW"
         THEN /\ cameraState' = "MOVING_TO_HOME"
              /\ selectedPlanet' = NoSelection
              /\ speedFactor' = userSpeed
              /\ ~overridden'
         ELSE UNCHANGED <<cameraState, selectedPlanet, speedFactor>>]_vars

\* the camera is on its way home out of a detail view that the last input left
C27_LeftDetailView ==
    /\ cameraState = "MOVING_TO_HOME"
    /\ selectedPlanet = NoSelection
    /\ controls.enabled
    /\ controls.maxDistance < Infinity
    /\ ~overridden
    /\ speedFactor > OverrideSpeed

\* C28: in every reachable state a body is selected exactly when the camera
\* state is ZOOMING_IN or DETAIL_VIEW.
C28_SelectionIffPlanetView ==
    (selectedPlanet # NoSelection) <=> (cameraState \in {"ZOOMING_IN", "DETAIL_VIEW"})

\* the camera went to a planet and came back: it is free again with nothing selected
C28_FreeAgainWithNothingSelected ==
    /\ cameraState = "FREE"
    /\ selectedPlanet = NoSelection
    /\ inputsLeft = 0

\* a press of the speed-up key (ArrowUp, Equal) and of the speed-down key
\* (ArrowDown, Minus)
SpeedUpStep ==
    /\ UserActs
    /\ SetSpeed(setSpeedFactor(SpeedNow, cycleSpeedUp(speedFactor)))
    /\ UNCHANGED <<cameraState, selectedPlanet>>
SpeedDownStep ==
    /\ UserActs
    /\ SetSpeed(setSpeedFactor(SpeedNow, cycleSpeedDown(speedFactor)))
    /\ UNCHANGED <<cameraState, selectedPlanet>>

\* C29: at every speed the button presets (0, 1, 2, 5, 10) and the keyboard
\* presets (0, 0.5, 1, 2, 5) lead to, a speed-up key press never lowers the
\* speed factor and a speed-down key press never raises it.
C29_SpeedKeysAreMonotone ==
    [][/\ SpeedUpStep => speedFactor' >= speedFactor
       /\ SpeedDownStep => speedFactor' <= speedFactor]_vars

\* C21: every NASA API route (planet, moon, APOD, NEO) checks the rate limit
\* before it contacts the upstream service, and a failed check is answered
\* with status 429 without an upstream request.
C21_RoutesCheckBeforeUpstream ==
    lastRequest.route \in NasaRoutes =>
        /\ lastRequest.contacted => lastRequest.checked = "passed"
        /\ lastRequest.checked = "failed" =>
              (lastRequest.status = 429 /\ ~lastRequest.contacted)

\* the successful checks of an identifier whose times lie in the window that
\* begins at start
GrantedInWindow(identifier, start) ==
    {i \in 1..Len(granted[identifier]) :
        /\ granted[identifier][i] >= start
        /\ granted[identifier][i] < start + nasaRateLimiter.window}

\* C22: for each identifier, the checks that returned success with a time in
\* one and the same window are never more than the limit.
C22_NoMoreThanLimitPerWindow ==
    \A identifier \in Identifiers : \A start \in StartTime..MaxTime :
        Cardinality(GrantedInWindow(identifier, start)) <= nasaRateLimiter.limit

\* the limit was used up, a check was refused, and after the window had
\* passed checks were granted again
C22_GrantedAgainAfterWindow ==
    /\ Len(granted["global"]) > nasaRateLimiter.limit
    /\ ~lastCheck.success
    /\ lastCheck.remaining = 0
    /\ Len(granted["client"]) = nasaRateLimiter.limit

\* the loads in flight for a cache key
LoadsFor(key) == {load \in loads : load.key = key}

\* C23: as long as disposeAll has not emptied the loading queue under a load,
\* at most one load is in flight per resolved texture path, and a loadTexture
\* call that arrives while a load for its path is in flight starts no second
\* load and gets the promise of the one in flight.
C23_OneLoadPerPath ==
    /\ [](~queueCleared => \A key \in TextureKeys : Cardinality(LoadsFor(key)) <= 1)
    /\ [][\A path \in TexturePaths, quality \in RequestedQualities :
            LET key == selectTextureQuality(textureManager.deviceCapabilities, path, quality)
            IN  (~queueCleared /\ LoadsFor(key) # {} /\ loadTexture(path, quality))
                  => /\ loads' = loads
                     /\ lastLoadCall'.returned = "promise"
                     /\ \E load \in LoadsFor(key) : lastLoadCall'.id = load.id]_vars

\* a call joined the load that another call had started for the same path
C23_JoinedLoadInFlight ==
    /\ ~queueCleared
    /\ ~lastLoadCall.started
    /\ lastLoadCall.returned = "promise"
    /\ \E load \in loads : load.key = lastLoadCall.key /\ load.id = lastLoadCall.id
    /\ Cardinality(loads) > 1

\* C24: after a successful fetch for a cache key, and with the cache not
\* cleared since, a request for the key made less than the cache duration
\* later returns the cached data and issues no fetch, and a request made the
\* cache duration or more later issues a new fetch.
C24_CachedForTheDuration ==
    [][\A cacheKey \in CacheKeys :
         (lastSuccess[cacheKey] # 0 /\ fetchWithCache(cacheKey)) =>
            IF now - lastSuccess[cacheKey] < CacheDuration
            THEN /\ fetches' = fetches
                 /\ lastResult' = [key |-> cacheKey, outcome |-> "cached",
                                    data |-> nasaCache[cacheKey].data]
            ELSE \E f \in fetches' \ fetches : f.key = cacheKey]_vars

\* a request found its entry expired and waits for the new fetch, after a
\* request had been answered from the cache
C24_RefetchAfterExpiry ==
    /\ lastResult.outcome = "cached"
    /\ \E f \in fetches :
          /\ f.key = lastResult.key
          /\ f.cached.present
          /\ f.cached.timestamp = lastSuccess[f.key]
          /\ now - lastSuccess[f.key] >= CacheDuration

\* a step in which a fetch ends in failure
FetchFailsStep ==
    /\ fetchesStarted' = fetchesStarted
    /\ \E f \in fetches : fetches' = fetches \ {f}
    /\ lastResult'.outcome \in {"stale", "error"}

\* C25: when a fetch fails and the cache holds an entry for the key, expired
\* or not, the data of that entry is returned and the entry stays as it is;
\* when the cache holds no entry for the key, the error goes to the caller.
C25_FailedFetchFallsBackToCache ==
    [][FetchFailsStep =>
         /\ nasaCache' = nasaCache
         /\ IF nasaCache[lastResult'.key].present
            THEN /\ lastResult'.outcome = "stale"
                 /\ lastResult'.data = nasaCache[lastResult'.key].data
            ELSE lastResult'.outcome = "error"]_vars

====
